---- MODULE Spec2Model ----
(***************************************************************************)
(* CelsiumCrosshair (src/Crosshair.py): a full-screen click-through        *)
(* overlay widget (CrosshairOverlay) that paints a crosshair, and a        *)
(* settings panel (CrosshairSettingsUI) whose sliders and buttons call     *)
(* the overlay's setters.  Everything runs on the one Qt event loop, so    *)
(* every handler is one atomic action.                                     *)
(***************************************************************************)
EXTENDS Integers, Sequences, FiniteSets, TLC

VARIABLES
    pc,            \* position of main(): "main", "overlay" (overlay built), "exec" (event loop)
    desktop,       \* <<width, height>> reported by QApplication.desktop()
    pixmap_has_bool, \* whether the installed binding gives QPixmap a __bool__ (not isNull())
    overlay,       \* the CrosshairOverlay object: its attributes and its window state
    ui,            \* the CrosshairSettingsUI object: its labels, sliders and button
    color_result,  \* the QColor the colour dialog returned to the handler of this step
    file_path,     \* the path the file dialog returned to the handler of this step
    drawn,         \* painter commands issued by the handler of this step
    lastOp,        \* the handler that ran in this step
    writes,        \* toggle_crosshair arguments written since the last timer tick
    seen           \* the writes that preceded the timer tick of this step

vars == <<pc, desktop, pixmap_has_bool, overlay, ui, color_result, file_path, drawn, lastOp, writes, seen>>

-----------------------------------------------------------------------------
(* Bounds and sampled inputs *)

MaxWrites == 2          \* toggle writes remembered between two timer ticks

\* Program constants
default_size      == 15
default_thickness == 2
SizeMin      == 5
SizeMax      == 100
ThicknessMin == 1
ThicknessMax == 10
FovMin       == 60
FovMax       == 120
FovDefault   == 90

QColor(r, g, b, a) == [valid |-> TRUE, rgba |-> <<r, g, b, a>>]
InvalidColor  == [valid |-> FALSE, rgba |-> <<0, 0, 0, 255>>]   \* QColor(): dialog cancelled
default_color == QColor(255, 0, 0, 255)
Blue          == QColor(0, 0, 255, 255)

\* Values the sliders are moved to, inside the ranges the sliders enforce
SizeValues      == {v \in {SizeMin, default_size, 40, SizeMax} : v >= SizeMin /\ v <= SizeMax}
ThicknessValues == {v \in {ThicknessMin, default_thickness, 5, ThicknessMax} :
                        v >= ThicknessMin /\ v <= ThicknessMax}
FovValues       == {v \in {FovMin, FovDefault, FovMax} : v >= FovMin /\ v <= FovMax}
\* What QColorDialog.getColor() can return
DialogColors    == {InvalidColor, default_color, Blue}
\* What QFileDialog.getOpenFileName() can return; "" is a cancelled dialog
DialogPaths     == {"", "dot.png", "ring.jpg", "notes.txt"}
\* Desktop sizes QApplication.desktop() can report
Desktops        == {<<1920, 1080>>, <<1367, 769>>}

-----------------------------------------------------------------------------
(* Qt values *)

None == [isNull |-> TRUE, none |-> TRUE, pixels |-> "", w |-> 0, h |-> 0]

\* QPixmap(image_path): a file that does not decode gives a null pixmap
QPixmap(image_path) ==
    CASE image_path = "dot.png"  -> [isNull |-> FALSE, none |-> FALSE, pixels |-> "dot.png",  w |-> 32, h |-> 32]
      [] image_path = "ring.jpg" -> [isNull |-> FALSE, none |-> FALSE, pixels |-> "ring.jpg", w |-> 65, h |-> 33]
      [] OTHER                   -> [isNull |-> TRUE,  none |-> FALSE, pixels |-> "", w |-> 0, h |-> 0]

\* `if self.crosshair_image:` -- None is false; a QPixmap object is true, unless the
\* binding defines QPixmap.__bool__ as not isNull(), which makes a null pixmap false
Truthy(image) == ~image.none /\ (pixmap_has_bool => ~image.isNull)

\* Integer division of C++, which truncates toward zero
CDiv(a, b) == IF a >= 0 THEN a \div b ELSE -((-a) \div b)

\* QRect as <<x1, y1, x2, y2>> (inclusive corners), as Qt stores it
Rect(w, h)      == <<0, 0, w - 1, h - 1>>
Center(r)       == <<CDiv(r[1] + r[3], 2), CDiv(r[2] + r[4], 2)>>
MoveCenter(r, p) ==
    LET w  == r[3] - r[1]
        h  == r[4] - r[2]
        x1 == p[1] - CDiv(w, 2)
        y1 == p[2] - CDiv(h, 2)
    IN  <<x1, y1, x1 + w, y1 + h>>

NoDraw == [kind |-> "none", pen_color |-> InvalidColor, pen_width |-> 0,
           hline |-> <<0, 0, 0, 0>>, vline |-> <<0, 0, 0, 0>>,
           rect |-> <<0, 0, 0, 0>>, pixels |-> ""]

SizeText(value)      == <<"Crosshair Size: ", value>>
ThicknessText(value) == <<"Crosshair Thickness: ", value>>
FovText(value)       == <<"Field of View (FOV): ", value>>

-----------------------------------------------------------------------------
(* QWidget behaviour the overlay relies on.  Fields of the overlay record:  *)
(* geometry, size, thickness, color, crosshair_image, crosshair_visible are *)
(* the Python attributes; shown is the window's OS-level shown state and    *)
(* update_pending says that a paint event is waiting in the event loop.     *)

\* QWidget.update(): schedules a paint event, only if the widget is shown
update(self) == [self EXCEPT !.update_pending = self.update_pending \/ self.shown]

\* QWidget.show(): a newly shown window gets a paint event
show(self) == [self EXCEPT !.shown = TRUE,
                           !.update_pending = self.update_pending \/ ~self.shown]

\* QWidget.hide(): a hidden window gets no paint events
hide(self) == [self EXCEPT !.shown = FALSE, !.update_pending = FALSE]

\* A QWidget before __init__ has run its body: hidden, nothing scheduled
NewWidget == [geometry |-> <<0, 0>>, size |-> 0, thickness |-> 0,
              color |-> InvalidColor, crosshair_image |-> None,
              crosshair_visible |-> FALSE, shown |-> FALSE, update_pending |-> FALSE]

-----------------------------------------------------------------------------
(* CrosshairOverlay methods, as functions from the object to the object *)

reset_to_default_keeps_image(self) ==
    update([self EXCEPT !.size = default_size, !.thickness = default_thickness,
                        !.color = default_color])

reset_to_default(self) ==
    update([self EXCEPT !.size = default_size, !.thickness = default_thickness,
                        !.color = default_color, !.crosshair_image = None])

update_overlay_show_only(self) == show(self)

update_overlay(self) == IF self.crosshair_visible THEN show(self) ELSE hide(self)

toggle_crosshair(self, visible) == [self EXCEPT !.crosshair_visible = visible]

set_size_clears_image(self, value) ==
    update([self EXCEPT !.size = value, !.crosshair_image = None])

set_size(self, value) == update([self EXCEPT !.size = value])

set_thickness(self, value) == update([self EXCEPT !.thickness = value])

set_color(self, c) == update([self EXCEPT !.color = c])

load_custom_crosshair(self, image_path) ==
    update([self EXCEPT !.crosshair_image = QPixmap(image_path)])

\* __init__: window geometry, defaults, reset_to_default(), timer, show()
CrosshairOverlay_init(desk) ==
    show(reset_to_default([NewWidget EXCEPT !.geometry = desk,
                                            !.crosshair_visible = FALSE]))

\* The painter commands of paintEvent
DrawPixmap(self) ==
    [NoDraw EXCEPT !.kind = "pixmap",
                   !.rect = MoveCenter(Rect(self.crosshair_image.w, self.crosshair_image.h),
                                       Center(Rect(self.geometry[1], self.geometry[2]))),
                   !.pixels = self.crosshair_image.pixels]

DrawLines(self) ==
    LET mid_x == self.geometry[1] \div 2
        mid_y == self.geometry[2] \div 2
    IN  [NoDraw EXCEPT !.kind = "lines",
                       !.pen_color = self.color,
                       !.pen_width = self.thickness,
                       !.hline = <<mid_x - self.size, mid_y, mid_x + self.size, mid_y>>,
                       !.vline = <<mid_x, mid_y - self.size, mid_x, mid_y + self.size>>]

Paint_ignores_visible(self) ==
    IF Truthy(self.crosshair_image) THEN DrawPixmap(self) ELSE DrawLines(self)

Paint_full_length(self) ==
    LET mid_x == self.geometry[1] \div 2
        mid_y == self.geometry[2] \div 2
    IN  IF ~self.crosshair_visible THEN NoDraw
        ELSE IF Truthy(self.crosshair_image) THEN DrawPixmap(self)
        ELSE [DrawLines(self) EXCEPT
                 !.hline = <<mid_x - (self.size \div 2), mid_y, mid_x + (self.size \div 2), mid_y>>]

Paint(self) ==
    IF ~self.crosshair_visible THEN NoDraw
    ELSE IF Truthy(self.crosshair_image) THEN DrawPixmap(self)
    ELSE DrawLines(self)

-----------------------------------------------------------------------------
(* CrosshairSettingsUI *)

\* The panel before init_ui has built its widgets
NewPanel == [size_label |-> <<"", 0>>, size_slider |-> 0,
             thickness_label |-> <<"", 0>>, thickness_slider |-> 0,
             fov_label |-> <<"", 0>>, fov_slider |-> 0,
             button_text |-> "", button_checked |-> FALSE]

\* init_ui: labels and sliders show the overlay's values at construction
init_ui(ov) ==
    [size_label |-> SizeText(ov.size), size_slider |-> ov.size,
     thickness_label |-> ThicknessText(ov.thickness), thickness_slider |-> ov.thickness,
     fov_label |-> FovText(FovDefault), fov_slider |-> FovDefault,
     button_text |-> "Enable Crosshair", button_checked |-> FALSE]

\* What a handler that opens no dialog, paints nothing and is not the timer leaves behind
Quiet(op) ==
    /\ lastOp' = op
    /\ color_result' = InvalidColor
    /\ file_path' = ""
    /\ drawn' = NoDraw
    /\ seen' = <<>>

Remember(ws, v) == IF Len(ws) >= MaxWrites THEN Append(Tail(ws), v) ELSE Append(ws, v)

-----------------------------------------------------------------------------
(* main() *)

Init ==
    /\ pc = "main"
    /\ desktop \in Desktops
    /\ pixmap_has_bool \in BOOLEAN
    /\ overlay = NewWidget
    /\ ui = NewPanel
    /\ color_result = InvalidColor
    /\ file_path = ""
    /\ drawn = NoDraw
    /\ lastOp = "main"
    /\ writes = <<>>
    /\ seen = <<>>

\* overlay = CrosshairOverlay()
CreateOverlay ==
    /\ pc = "main"
    /\ pc' = "overlay"
    /\ overlay' = CrosshairOverlay_init(desktop)
    /\ Quiet("__init__")
    /\ UNCHANGED <<desktop, pixmap_has_bool, ui, writes>>

\* settings_window = CrosshairSettingsUI(overlay); settings_window.show(); app.exec_()
CreateSettings ==
    /\ pc = "overlay"
    /\ pc' = "exec"
    /\ ui' = init_ui(overlay)
    /\ Quiet("init_ui")
    /\ UNCHANGED <<desktop, pixmap_has_bool, overlay, writes>>

-----------------------------------------------------------------------------
(* Events delivered by the event loop *)

\* timer.timeout -> update_overlay
TimerTick ==
    /\ pc = "exec"
    /\ overlay' = update_overlay(overlay)
    /\ lastOp' = "update_overlay"
    /\ seen' = writes
    /\ writes' = <<>>
    /\ color_result' = InvalidColor
    /\ file_path' = ""
    /\ drawn' = NoDraw
    /\ UNCHANGED <<pc, desktop, pixmap_has_bool, ui>>

\* A scheduled paint event reaches paintEvent
paintEvent ==
    /\ pc = "exec"
    /\ overlay.shown
    /\ overlay.update_pending
    /\ overlay' = [overlay EXCEPT !.update_pending = FALSE]
    /\ drawn' = Paint(overlay)
    /\ lastOp' = "paintEvent"
    /\ color_result' = InvalidColor
    /\ file_path' = ""
    /\ seen' = <<>>
    /\ UNCHANGED <<pc, desktop, pixmap_has_bool, ui, writes>>

\* size_slider.valueChanged(value): emitted only when the value changes
update_size_and_thickness(value) ==
    /\ pc = "exec"
    /\ value # ui.size_slider
    /\ ui' = [ui EXCEPT !.size_slider = value, !.size_label = SizeText(value)]
    /\ overlay' = set_thickness(set_size(overlay, value), ThicknessMin)
    /\ Quiet("update_size")
    /\ UNCHANGED <<pc, desktop, pixmap_has_bool, writes>>

update_size(value) ==
    /\ pc = "exec"
    /\ value # ui.size_slider
    /\ ui' = [ui EXCEPT !.size_slider = value, !.size_label = SizeText(value)]
    /\ overlay' = set_size(overlay, value)
    /\ Quiet("update_size")
    /\ UNCHANGED <<pc, desktop, pixmap_has_bool, writes>>

\* thickness_slider.valueChanged(value)
update_thickness(value) ==
    /\ pc = "exec"
    /\ value # ui.thickness_slider
    /\ ui' = [ui EXCEPT !.thickness_slider = value, !.thickness_label = ThicknessText(value)]
    /\ overlay' = set_thickness(overlay, value)
    /\ Quiet("update_thickness")
    /\ UNCHANGED <<pc, desktop, pixmap_has_bool, writes>>

\* fov_slider.valueChanged(value)
update_fov_scales_size(value) ==
    /\ pc = "exec"
    /\ value # ui.fov_slider
    /\ ui' = [ui EXCEPT !.fov_slider = value, !.fov_label = FovText(value)]
    /\ overlay' = set_size(overlay, SizeMin)
    /\ Quiet("update_fov")
    /\ UNCHANGED <<pc, desktop, pixmap_has_bool, writes>>

update_fov(value) ==
    /\ pc = "exec"
    /\ value # ui.fov_slider
    /\ ui' = [ui EXCEPT !.fov_slider = value, !.fov_label = FovText(value)]
    /\ Quiet("update_fov")
    /\ UNCHANGED <<pc, desktop, pixmap_has_bool, overlay, writes>>

\* color_button.clicked: color = QColorDialog.getColor()
choose_color_unchecked ==
    /\ pc = "exec"
    /\ \E c \in DialogColors :
          /\ color_result' = c
          /\ overlay' = set_color(overlay, c)
    /\ lastOp' = "choose_color"
    /\ file_path' = ""
    /\ drawn' = NoDraw
    /\ seen' = <<>>
    /\ UNCHANGED <<pc, desktop, pixmap_has_bool, ui, writes>>

choose_color ==
    /\ pc = "exec"
    /\ \E c \in DialogColors :
          /\ color_result' = c
          /\ overlay' = IF c.valid THEN set_color(overlay, c) ELSE overlay
    /\ lastOp' = "choose_color"
    /\ file_path' = ""
    /\ drawn' = NoDraw
    /\ seen' = <<>>
    /\ UNCHANGED <<pc, desktop, pixmap_has_bool, ui, writes>>

\* upload_button.clicked: file_path, _ = QFileDialog.getOpenFileName(...)
upload_custom_crosshair ==
    /\ pc = "exec"
    /\ \E path \in DialogPaths :
          /\ file_path' = path
          /\ overlay' = IF path # "" THEN load_custom_crosshair(overlay, path) ELSE overlay
    /\ lastOp' = "upload_custom_crosshair"
    /\ color_result' = InvalidColor
    /\ drawn' = NoDraw
    /\ seen' = <<>>
    /\ UNCHANGED <<pc, desktop, pixmap_has_bool, ui, writes>>

\* remove_custom_button.clicked
remove_custom_crosshair ==
    /\ pc = "exec"
    /\ overlay' = reset_to_default(overlay)
    /\ Quiet("remove_custom_crosshair")
    /\ UNCHANGED <<pc, desktop, pixmap_has_bool, ui, writes>>

\* crosshair_button.clicked: a click on a checkable button flips isChecked() first
CrosshairSettingsUI_toggle_crosshair ==
    /\ pc = "exec"
    /\ LET checked == ~ui.button_checked
       IN  /\ ui' = [ui EXCEPT !.button_checked = checked,
                               !.button_text = IF checked THEN "Disable Crosshair"
                                               ELSE "Enable Crosshair"]
           /\ overlay' = toggle_crosshair(overlay, checked)
           /\ writes' = Remember(writes, checked)
    /\ Quiet("toggle_crosshair")
    /\ UNCHANGED <<pc, desktop, pixmap_has_bool>>

Next ==
    \/ CreateOverlay
    \/ CreateSettings
    \/ TimerTick
    \/ paintEvent
    \/ \E value \in SizeValues : update_size(value)
    \/ \E value \in ThicknessValues : update_thickness(value)
    \/ \E value \in FovValues : update_fov(value)
    \/ choose_color
    \/ upload_custom_crosshair
    \/ remove_custom_crosshair
    \/ CrosshairSettingsUI_toggle_crosshair

Spec == Init /\ [][Next]_vars

-----------------------------------------------------------------------------
(* Properties *)

Midpoint(self) == <<self.geometry[1] \div 2, self.geometry[2] \div 2>>

\* The overlay properties a step changed (update_pending is scheduling, not a property)
Properties == {"geometry", "size", "thickness", "color", "crosshair_image",
               "crosshair_visible", "shown"}
Get(self, f) ==
    CASE f = "geometry"          -> <<"geometry", self.geometry>>
      [] f = "size"              -> <<"size", self.size>>
      [] f = "thickness"         -> <<"thickness", self.thickness>>
      [] f = "color"             -> <<"color", self.color>>
      [] f = "crosshair_image"   -> <<"crosshair_image", self.crosshair_image>>
      [] f = "crosshair_visible" -> <<"crosshair_visible", self.crosshair_visible>>
      [] f = "shown"             -> <<"shown", self.shown>>
Changed(old, new) == {f \in Properties : Get(old, f) # Get(new, f)}

\* C1: whatever the state before, after the remove button's reset_to_default the
\* overlay has size 15, thickness 2, colour opaque red and no custom image.
C1_ResetYieldsDefaults ==
    lastOp = "remove_custom_crosshair" =>
        /\ overlay.size = 15
        /\ overlay.thickness = 2
        /\ overlay.color = QColor(255, 0, 0, 255)
        /\ overlay.crosshair_image = None

C1_Witness ==
    /\ lastOp = "remove_custom_crosshair"
    /\ ui.size_slider = 40
    /\ ui.thickness_slider = 5
    /\ overlay.crosshair_visible
    /\ overlay.size = 15

\* C2: once load_custom_crosshair has stored an image, the sliders, the colour button,
\* the enable button, the timer and repaints keep it and only reset_to_default turns it
\* into None; while a decoded image is stored, every repaint with crosshair_visible =
\* TRUE blits exactly that image, centred on the surface's centre, and draws no line.
C2_ImageHasPriority ==
    [][ /\ (/\ overlay.crosshair_image # None
            /\ lastOp' \in {"update_size", "update_thickness", "update_fov", "choose_color",
                            "toggle_crosshair", "update_overlay", "paintEvent"})
           => overlay'.crosshair_image = overlay.crosshair_image
        /\ (overlay.crosshair_image # None /\ overlay'.crosshair_image = None)
           => lastOp' = "remove_custom_crosshair"
        /\ (lastOp' = "paintEvent" /\ overlay'.crosshair_visible
                /\ overlay'.crosshair_image # None /\ ~overlay'.crosshair_image.isNull)
           => /\ drawn'.kind = "pixmap"
              /\ drawn'.pixels = overlay'.crosshair_image.pixels
              /\ drawn'.rect[3] - drawn'.rect[1] + 1 = overlay'.crosshair_image.w
              /\ drawn'.rect[4] - drawn'.rect[2] + 1 = overlay'.crosshair_image.h
              /\ Center(drawn'.rect) = Center(Rect(overlay'.geometry[1], overlay'.geometry[2]))
              /\ drawn'.hline = <<0, 0, 0, 0>>
              /\ drawn'.vline = <<0, 0, 0, 0>>
      ]_vars

C2_Witness ==
    /\ lastOp = "paintEvent"
    /\ overlay.crosshair_visible
    /\ overlay.crosshair_image = QPixmap("ring.jpg")
    /\ overlay.size = 40
    /\ overlay.thickness = 5
    /\ drawn.kind = "pixmap"

\* C3: a repaint while crosshair_visible is false issues no painter command, whatever
\* size, thickness, colour and image are, and changes no attribute of the overlay or
\* of the panel.
C3_HiddenPaintsNothing ==
    [][ (lastOp' = "paintEvent" /\ ~overlay.crosshair_visible)
           => /\ drawn' = NoDraw
              /\ Changed(overlay, overlay') = {}
              /\ ui' = ui
      ]_vars

C3_Witness ==
    /\ lastOp = "paintEvent"
    /\ ~overlay.crosshair_visible
    /\ Truthy(overlay.crosshair_image)
    /\ overlay.size = 40
    /\ drawn = NoDraw

\* C4: right after every timer tick the window's shown state equals crosshair_visible;
\* a tick that follows toggle_crosshair(True), toggle_crosshair(False) leaves it hidden.
C4_TickAppliesLastWrite ==
    lastOp = "update_overlay" =>
        /\ overlay.shown = overlay.crosshair_visible
        /\ (seen # <<>> => overlay.shown = seen[Len(seen)])

C4_Witness ==
    /\ lastOp = "update_overlay"
    /\ Len(seen) >= 2
    /\ seen[Len(seen) - 1] = TRUE
    /\ seen[Len(seen)] = FALSE
    /\ ~overlay.shown

\* C5: only the timer tick changes the window's shown state: construction, the
\* setters, the loaders and every panel handler leave it as it was.
C5_OnlyTickShowsOrHides ==
    [][ overlay'.shown # overlay.shown => lastOp' = "update_overlay" ]_vars

\* C6 (as stated): every panel control changes exactly its one overlay property (the
\* remove button: the custom image) and no other.
C6_Original ==
    [][ /\ lastOp' = "update_size"             => Changed(overlay, overlay') \subseteq {"size"}
        /\ lastOp' = "update_thickness"        => Changed(overlay, overlay') \subseteq {"thickness"}
        /\ lastOp' = "choose_color"            => Changed(overlay, overlay') \subseteq {"color"}
        /\ lastOp' = "upload_custom_crosshair" => Changed(overlay, overlay') \subseteq {"crosshair_image"}
        /\ lastOp' = "remove_custom_crosshair" => Changed(overlay, overlay') \subseteq {"crosshair_image"}
        /\ lastOp' = "toggle_crosshair"        => Changed(overlay, overlay') \subseteq {"crosshair_visible"}
      ]_vars

\* C6 (amended): every panel control except the remove button changes no overlay
\* property but its own (size slider: size, thickness slider: thickness, colour button:
\* color, upload button: crosshair_image, enable button: crosshair_visible); the remove
\* button resets size, thickness, color and crosshair_image together and nothing else.
C6_OneControlOneProperty ==
    [][ /\ lastOp' = "update_size"
           => (Changed(overlay, overlay') \subseteq {"size"} /\ overlay'.size = ui'.size_slider)
        /\ lastOp' = "update_thickness"
           => (Changed(overlay, overlay') \subseteq {"thickness"}
               /\ overlay'.thickness = ui'.thickness_slider)
        /\ lastOp' = "choose_color"            => Changed(overlay, overlay') \subseteq {"color"}
        /\ lastOp' = "upload_custom_crosshair" => Changed(overlay, overlay') \subseteq {"crosshair_image"}
        /\ lastOp' = "remove_custom_crosshair"
           => Changed(overlay, overlay') \subseteq {"size", "thickness", "color", "crosshair_image"}
        /\ lastOp' = "toggle_crosshair"
           => (Changed(overlay, overlay') = {"crosshair_visible"}
               /\ overlay'.crosshair_visible = ui'.button_checked)
      ]_vars

C6_Witness ==
    /\ lastOp = "update_size"
    /\ overlay.size = 40
    /\ overlay.thickness = 5
    /\ overlay.color = Blue
    /\ Truthy(overlay.crosshair_image)
    /\ overlay.crosshair_visible

\* C7: moving the FOV slider changes the FOV label (and the slider's own value) and
\* nothing else: the overlay and every other label, slider and button keep their state.
C7_FovIsInert ==
    [][ lastOp' = "update_fov"
           => /\ overlay' = overlay
              /\ ui'.fov_label = FovText(ui'.fov_slider)
              /\ ui'.fov_slider \in FovMin..FovMax
              /\ ui' = [ui EXCEPT !.fov_label = ui'.fov_label, !.fov_slider = ui'.fov_slider]
      ]_vars

C7_Witness ==
    /\ lastOp = "update_fov"
    /\ ui.fov_label = FovText(120)
    /\ overlay.size = 40
    /\ overlay.update_pending

\* C8: a cancelled colour dialog (invalid colour) or file dialog (empty path) leaves the
\* overlay as it was; a valid colour / non-empty path is what set_color /
\* load_custom_crosshair receives, and nothing else of the overlay changes.
C8_DialogResultForwarded ==
    [][ /\ lastOp' = "choose_color"
           => IF color_result'.valid
              THEN /\ overlay'.color = color_result'
                   /\ Changed(overlay, overlay') \subseteq {"color"}
              ELSE overlay' = overlay
        /\ lastOp' = "upload_custom_crosshair"
           => IF file_path' # ""
              THEN /\ overlay'.crosshair_image = QPixmap(file_path')
                   /\ Changed(overlay, overlay') \subseteq {"crosshair_image"}
              ELSE overlay' = overlay
      ]_vars

C8_Witness ==
    /\ lastOp = "choose_color"
    /\ ~color_result.valid
    /\ overlay.color = Blue
    /\ Truthy(overlay.crosshair_image)

\* C9: with crosshair_visible true and no custom image, a repaint draws one horizontal
\* and one vertical segment through (width \div 2, height \div 2), each reaching exactly
\* `size` to both sides, with pen width `thickness` and the current colour, and blits
\* no image.
C9_LinesMatchSizeAndThickness ==
    (lastOp = "paintEvent" /\ overlay.crosshair_visible /\ overlay.crosshair_image = None)
        => LET mid == Midpoint(overlay)
           IN  /\ drawn.kind = "lines"
               /\ drawn.hline[2] = mid[2] /\ drawn.hline[4] = mid[2]
               /\ mid[1] - drawn.hline[1] = overlay.size
               /\ drawn.hline[3] - mid[1] = overlay.size
               /\ drawn.vline[1] = mid[1] /\ drawn.vline[3] = mid[1]
               /\ mid[2] - drawn.vline[2] = overlay.size
               /\ drawn.vline[4] - mid[2] = overlay.size
               /\ drawn.pen_width = overlay.thickness
               /\ drawn.pen_color = overlay.color
               /\ drawn.pixels = ""
               /\ overlay.size \in SizeMin..SizeMax
               /\ overlay.thickness \in ThicknessMin..ThicknessMax

C9_Witness ==
    /\ lastOp = "paintEvent"
    /\ overlay.crosshair_visible
    /\ overlay.crosshair_image = None
    /\ overlay.size = 40
    /\ overlay.thickness = 5
    /\ overlay.color = Blue
    /\ drawn.hline = <<overlay.geometry[1] \div 2 - 40, overlay.geometry[2] \div 2,
                       overlay.geometry[1] \div 2 + 40, overlay.geometry[2] \div 2>>

\* C10: while the panel is up, the size label and slider show the overlay's size and
\* the thickness label and slider show the overlay's thickness.
C10_LabelsMatchOverlay ==
    pc = "exec" =>
        /\ ui.size_label = SizeText(overlay.size)
        /\ ui.size_slider = overlay.size
        /\ ui.thickness_label = ThicknessText(overlay.thickness)
        /\ ui.thickness_slider = overlay.thickness

====
